---- MODULE Spec2Model ----
(***************************************************************************)
(* Model of main/states/susi_state_machine_simple.py: the control loop of  *)
(* SusiStateMachine, the capture and recognition callback, the response    *)
(* dispatcher deal_with_answer and the error handler deal_with_error.      *)
(***************************************************************************)
EXTENDS Integers, Sequences, FiniteSets, TLC

VARIABLES
    event_queue,   \* self.event_queue: the FIFO of events pushed by queue_event
    scheduler,     \* plans registered with action_schduler.add_event, not yet fired
    pc,            \* position of every thread (consumer loop, wake button, renderer)
    local,         \* per thread: the event (or the call) in hand
    detector,      \* TRUE while hotword_detector is started (wake detection active)
    mic,           \* threads inside `with self.components.microphone`
    gpio,          \* output level of the GPIO lines 22 and 27
    GPIO,          \* TRUE when the RPi.GPIO module imported (line 23-27)
    wake_button,   \* components.wake_button is not None
    renderer,      \* components.renderer is not None
    config,        \* components.config: default_stt, default_tts
    language,      \* susi_config["language"]
    online,        \* network reachability (environment)
    restored,      \* player.restore_softvolume() ran since the last handling step
    raised,        \* exception that left start() ("none" while the loop runs)
    cycle,         \* per thread: what the capture cycle in progress / last ended did
    out            \* result of the last deal_with_answer / deal_with_error call

vars == <<event_queue, scheduler, pc, local, detector, mic, gpio, GPIO, wake_button,
          renderer, config, language, online, restored, raised, cycle, out>>

----------------------------------------------------------------------------
(* Bounds of the model *)

\* most events pending at a time: plans registered with the action scheduler
\* and events waiting in event_queue
MaxPending == 2
\* most data rows of a table in a Reply, beyond the four that are spoken
MaxExtraRows == 1

----------------------------------------------------------------------------
(* Values *)

None == "None"

FallbackPhrase == "I don't have an answer to this"

\* the media actions deal_with_answer recognizes (lines 326-345)
MediaActions == {"pause", "resume", "restart", "next", "previous", "shuffle"}

\* strings are sequences of characters where the code slices them (line 379-380)
YtdIdentifier == <<"y", "t", "d", "-", "0", "4">>
UrlIdentifier == <<"h", "t", "t", "p", ":", "m">>
\* the tag alone: shorter than the prefix line 380 strips
TagIdentifier == <<"y", "t", "d">>

\* a planned action as the dialogue service sends it (comment at line 310)
Plan1 == [plan_delay |-> 2000, answer |-> "ALARM", language |-> "en"]
Plan2 == [plan_delay |-> 0, stop |-> "StopAction"]

Has(reply, key) == key \in DOMAIN reply

\* payloads of deal_with_answer, tagged with what isinstance() sees (line 292)
Text(s) == [isinstance |-> "str", value |-> s]
Obj(reply) == [isinstance |-> "dict", value |-> reply]
NonePayload == [isinstance |-> "NoneType", value |-> None]

Min(a, b) == IF a < b THEN a ELSE b

\* Python's seq[0:n]
Head0(seq, n) == SubSeq(seq, 1, Min(n, Len(seq)))
\* Python's seq[n:]
From(seq, n) == SubSeq(seq, n + 1, Len(seq))

RECURSIVE Flatten(_)
Flatten(rows) == IF rows = <<>> THEN <<>> ELSE Head(rows) \o Flatten(Tail(rows))

----------------------------------------------------------------------------
(* Collaborator calls, recorded as effects *)

notify_renderer(message) ==
    IF renderer THEN << <<"renderer.receive_message">> \o message >> ELSE <<>>

\* __speak: the TTS provider is chosen by config['default_tts']; the online
\* providers need the network
speak(text) ==
    IF config.default_tts = "google"
    THEN IF online THEN [fx |-> << <<"TTS.speak_google_tts", text>> >>, exc |-> "none"]
                   ELSE [fx |-> <<>>, exc |-> "ConnectionError"]
    ELSE IF config.default_tts = "flite"
    THEN [fx |-> << <<"TTS.speak_flite_tts", text>> >>, exc |-> "none"]
    ELSE IF config.default_tts = "watson"
    THEN IF online THEN [fx |-> << <<"TTS.speak_watson_tts", text>> >>, exc |-> "none"]
                   ELSE [fx |-> <<>>, exc |-> "ConnectionError"]
    ELSE [fx |-> <<>>, exc |-> "none"]

\* a step of deal_with_answer runs only while no earlier step has raised
Do(acc, fx) == IF acc.exc # "none" THEN acc ELSE [acc EXCEPT !.fx = @ \o fx]

Say(acc, text) ==
    IF acc.exc # "none" THEN acc
    ELSE LET s == speak(text) IN [acc EXCEPT !.fx = @ \o s.fx, !.exc = s.exc]

RECURSIVE SayAll(_, _)
SayAll(acc, texts) ==
    IF texts = <<>> THEN acc ELSE SayAll(Say(acc, Head(texts)), Tail(texts))

----------------------------------------------------------------------------
(* deal_with_error: the effects of one call and the exception it raises.   *)
(* In the ConnectionError branch the name `config` is bound nowhere in the *)
(* module (the providers live in self.components.config), so line 266      *)
(* raises NameError before any provider is changed or any light is set.    *)

deal_with_error(payload) ==
    IF payload = "RecognitionError"
    THEN [fx |-> notify_renderer(<<"error", "recognition">>)
                 \o << <<"lights.speak">>,
                       <<"player.say", "recognition_error_sound">>,
                       <<"lights.off">> >>,
          raises |-> "none"]
    ELSE IF payload = "ConnectionError"
    THEN [fx |-> notify_renderer(<<"error", "connection">>),
          raises |-> "NameError"]
    ELSE IF payload = "ListenTimeout"
    THEN [fx |-> notify_renderer(<<"error", "timeout">>)
                 \o << <<"lights.speak">>, <<"lights.off">> >>,
          raises |-> "none"]
    ELSE [fx |-> notify_renderer(<<"error">>)
                 \o << <<"lights.speak">>,
                       <<"player.say", "problem_sound">>,
                       <<"lights.off">> >>,
          raises |-> "none"]

----------------------------------------------------------------------------
(* deal_with_answer, one operator per field of the Reply, in program order. *)
(* acc carries the effects so far, the exception raised (if any),           *)
(* no_answer_needed, the active language and the plans registered.          *)

\* dispatch_planned_actions that counts a registered plan as the answer
\* (no_answer_needed set, as the steps after it do)
dispatch_planned_actions_answers(acc, reply) ==
    IF acc.exc # "none" \/ ~Has(reply, "planned_actions") THEN acc
    ELSE LET plans == reply["planned_actions"]
             added == [i \in 1..Len(plans) |-> [delay_num |-> plans[i].plan_delay,
                                                delay_den |-> 1000,
                                                event |-> plans[i]]]
         IN [acc EXCEPT !.no_answer_needed = TRUE,
                        !.sched = @ \o added,
                        !.fx = @ \o [i \in 1..Len(plans) |->
                                       <<"action_schduler.add_event", added[i]>>]]

\* dispatch_planned_actions that leaves out a plan the scheduler already holds
dispatch_planned_actions_once(acc, reply) ==
    IF acc.exc # "none" \/ ~Has(reply, "planned_actions") THEN acc
    ELSE LET plans == SelectSeq(reply["planned_actions"],
                                LAMBDA plan : \A i \in 1..Len(scheduler) :
                                                 scheduler[i] # plan)
             added == [i \in 1..Len(plans) |-> [delay_num |-> plans[i].plan_delay,
                                                delay_den |-> 1000,
                                                event |-> plans[i]]]
         IN [acc EXCEPT !.sched = @ \o added,
                        !.fx = @ \o [i \in 1..Len(plans) |->
                                       <<"action_schduler.add_event", added[i]>>]]

dispatch_planned_actions(acc, reply) ==
    IF acc.exc # "none" \/ ~Has(reply, "planned_actions") THEN acc
    ELSE LET plans == reply["planned_actions"]
             added == [i \in 1..Len(plans) |-> [delay_num |-> plans[i].plan_delay,
                                                delay_den |-> 1000,
                                                event |-> plans[i]]]
         IN [acc EXCEPT !.sched = @ \o added,
                        !.fx = @ \o [i \in 1..Len(plans) |->
                                       <<"action_schduler.add_event", added[i]>>]]

dispatch_volume(acc, reply) ==
    IF acc.exc # "none" \/ ~Has(reply, "volume") THEN acc
    ELSE [acc EXCEPT !.no_answer_needed = TRUE,
                     !.fx = @ \o << <<"player.volume", reply["volume"]>>,
                                    <<"player.say", "detection_bell_sound">> >>]

\* dispatch_media_action with no_answer_needed set before the action is looked
\* at (the assignment hoisted out of the branches of lines 326-345)
dispatch_media_action_flag_first(acc, reply) ==
    IF acc.exc # "none" \/ ~Has(reply, "media_action") THEN acc
    ELSE LET action == reply["media_action"] IN
         IF action = "pause"
         THEN [acc EXCEPT !.no_answer_needed = TRUE,
                          !.fx = @ \o << <<"player.pause">>, <<"lights.off">>,
                                         <<"lights.wakeup">> >>]
         ELSE IF action \in MediaActions
         THEN [acc EXCEPT !.no_answer_needed = TRUE,
                          !.fx = @ \o << <<"player." \o action>> >>]
         ELSE [acc EXCEPT !.no_answer_needed = TRUE]

dispatch_media_action(acc, reply) ==
    IF acc.exc # "none" \/ ~Has(reply, "media_action") THEN acc
    ELSE LET action == reply["media_action"] IN
         IF action = "pause"
         THEN [acc EXCEPT !.no_answer_needed = TRUE,
                          !.fx = @ \o << <<"player.pause">>, <<"lights.off">>,
                                         <<"lights.wakeup">> >>]
         ELSE IF action \in MediaActions
         THEN [acc EXCEPT !.no_answer_needed = TRUE,
                          !.fx = @ \o << <<"player." \o action>> >>]
         ELSE acc

\* dispatch_stop without line 351 (no_answer_needed stays as it was)
dispatch_stop_keeps_flag(acc, reply) ==
    IF acc.exc # "none" \/ ~Has(reply, "stop") THEN acc
    ELSE [acc EXCEPT !.fx = @ \o << <<"player.stop">> >>]

dispatch_stop(acc, reply) ==
    IF acc.exc # "none" \/ ~Has(reply, "stop") THEN acc
    ELSE [acc EXCEPT !.no_answer_needed = TRUE,
                     !.fx = @ \o << <<"player.stop">> >>]

dispatch_answer(acc, reply) ==
    IF acc.exc # "none" THEN acc
    ELSE IF Has(reply, "answer")
    THEN Do(Say(Do(acc, << <<"lights.off">>, <<"lights.speak">> >>), reply["answer"]),
            << <<"lights.off">> >>)
    ELSE IF ~acc.no_answer_needed /\ ~Has(reply, "identifier")
    THEN Do(Say(Do(acc, << <<"lights.off">>, <<"lights.speak">> >>), FallbackPhrase),
            << <<"lights.off">> >>)
    ELSE acc

dispatch_language(acc, reply) ==
    IF acc.exc # "none" \/ ~Has(reply, "language") THEN acc
    ELSE IF reply["language"] # acc.lang
    THEN [acc EXCEPT !.lang = reply["language"],
                     !.fx = @ \o << <<"susi_config.language", reply["language"]>> >>]
    ELSE acc

\* dispatch_identifier stripping the 3 characters of the tag only (url[3:])
dispatch_identifier_strips_tag(acc, reply) ==
    IF acc.exc # "none" \/ ~Has(reply, "identifier") THEN acc
    ELSE LET url == reply["identifier"] IN
         IF Head0(url, 3) = <<"y", "t", "d">>
         THEN Do(acc, << <<"player.playytb", From(url, 3)>> >>)
         ELSE Do(acc, << <<"player.play", url>> >>)

dispatch_identifier(acc, reply) ==
    IF acc.exc # "none" \/ ~Has(reply, "identifier") THEN acc
    ELSE LET url == reply["identifier"] IN
         IF Head0(url, 3) = <<"y", "t", "d">>
         THEN Do(acc, << <<"player.playytb", From(url, 4)>> >>)
         ELSE Do(acc, << <<"player.play", url>> >>)

\* dispatch_table without the slice of line 390: every data row is spoken
dispatch_table_all_rows(acc, reply) ==
    IF acc.exc # "none" \/ ~Has(reply, "table") THEN acc
    ELSE LET table == reply["table"]
         IN SayAll(SayAll(acc, table.head), Flatten(table.data))

dispatch_table(acc, reply) ==
    IF acc.exc # "none" \/ ~Has(reply, "table") THEN acc
    ELSE LET table == reply["table"]
         IN SayAll(SayAll(acc, table.head), Flatten(Head0(table.data, 4)))

dispatch_rss(acc, reply) ==
    IF acc.exc # "none" \/ ~Has(reply, "rss") THEN acc
    ELSE LET rss == reply["rss"]
             entities == rss.entities
             count == rss.count
         IN SayAll(acc, [i \in 1..Len(Head0(entities, count)) |-> entities[i].title])

\* lines 289-302: the remote call for a text payload, GPIO 27, the 'speaking'
\* notification; `remote` is the Reply the dialogue service gives when reached
dispatch_begin(payload, remote) ==
    LET acc0 == [fx |-> <<>>, exc |-> "none", no_answer_needed |-> FALSE,
                 lang |-> language, sched |-> <<>>, gpio27 |-> FALSE]
    IN IF payload.isinstance = "str" /\ ~online
       THEN [acc0 EXCEPT !.exc = "ConnectionError"]
       ELSE LET acc1 == [acc0 EXCEPT
                           !.fx = (IF payload.isinstance = "str"
                                   THEN << <<"susi.ask", payload.value>> >>
                                   ELSE <<>>) \o notify_renderer(<<"speaking">>),
                           !.gpio27 = GPIO]
            IN \* reply.keys() on a payload that is neither text nor a Reply
               IF payload.isinstance = "NoneType"
               THEN [acc1 EXCEPT !.exc = "AttributeError"]
               ELSE acc1

\* lines 404-410: a ConnectionError is answered by self.to_error(...), a method
\* SusiStateMachine does not have, so the handler itself raises AttributeError,
\* which leaves deal_with_answer, and deal_with_error is not called (handler
\* is the kind handed to it); any other exception is logged, result False
dispatch_end(acc) ==
    [fx |-> acc.fx, lang |-> acc.lang, sched |-> acc.sched, gpio27 |-> acc.gpio27,
     caught |-> acc.exc,
     handler |-> "none",
     ret |-> IF acc.exc = "none" THEN "True"
             ELSE IF acc.exc = "ConnectionError" THEN "raise" ELSE "False",
     raises |-> IF acc.exc = "ConnectionError" THEN "AttributeError" ELSE "none"]

\* deal_with_answer with the language step (lines 367-372) moved before the
\* answer step (lines 354-365)
deal_with_answer_language_first(payload, remote) ==
    LET reply == IF payload.isinstance = "str" THEN remote ELSE payload.value
    IN CHOOSE result \in
         {dispatch_end(fed) : fed \in
         {dispatch_rss(tabled, reply) : tabled \in
         {dispatch_table(played, reply) : played \in
         {dispatch_identifier(answered, reply) : answered \in
         {dispatch_answer(switched, reply) : switched \in
         {dispatch_language(stopped, reply) : stopped \in
         {dispatch_stop(media, reply) : media \in
         {dispatch_media_action(volume, reply) : volume \in
         {dispatch_volume(planned, reply) : planned \in
         {dispatch_planned_actions(begun, reply) : begun \in
         {dispatch_begin(payload, remote)}}}}}}}}}}} : TRUE

\* the steps in program order, each applied to the result of the one before
deal_with_answer(payload, remote) ==
    LET reply == IF payload.isinstance = "str" THEN remote ELSE payload.value
    IN CHOOSE result \in
         {dispatch_end(fed) : fed \in
         {dispatch_rss(tabled, reply) : tabled \in
         {dispatch_table(played, reply) : played \in
         {dispatch_identifier(switched, reply) : switched \in
         {dispatch_language(answered, reply) : answered \in
         {dispatch_answer(stopped, reply) : stopped \in
         {dispatch_stop(media, reply) : media \in
         {dispatch_media_action(volume, reply) : volume \in
         {dispatch_volume(planned, reply) : planned \in
         {dispatch_planned_actions(begun, reply) : begun \in
         {dispatch_begin(payload, remote)}}}}}}}}}}} : TRUE

\* recognize_audio: the provider config['default_stt'] selects, its outcome for
\* an utterance that is `heard` ("text" or "unintelligible") and the provider
\* config it leaves. An online provider that cannot be reached raises
\* sr.RequestError; pocket_sphinx with the network up switches the configured
\* provider to google (line 242) and recognizes with it.
recognize_audio(heard) ==
    LET stt == config.default_stt
        result == IF heard = "text" THEN "text" ELSE "UnknownValueError"
    IN IF stt \in {"google", "watson", "bing"}
       THEN [outcome |-> IF online THEN result ELSE "RequestError",
             provider |-> stt, default_stt |-> stt]
       ELSE IF stt = "pocket_sphinx"
       THEN IF online
            THEN [outcome |-> result, provider |-> "google", default_stt |-> "google"]
            ELSE [outcome |-> result, provider |-> "pocket_sphinx",
                  default_stt |-> stt]
       ELSE IF stt = "deepspeech-local"
       THEN [outcome |-> result, provider |-> stt, default_stt |-> stt]
       ELSE [outcome |-> "None", provider |-> "none", default_stt |-> stt]

----------------------------------------------------------------------------
(* The threads.  "loop" runs SusiStateMachine.start, and, nested in        *)
(* hotword_detector.start(), the callback the hotword detector fires.  The *)
(* wake button and the renderer fire the same callback from their threads. *)

Threads == {"loop", "wake_button", "renderer"}

Present(t) == \/ t = "loop"
              \/ t = "wake_button" /\ wake_button
              \/ t = "renderer" /\ renderer

STTProviders == {"google", "watson", "pocket_sphinx", "bing", "deepspeech-local"}
TTSProviders == {"google", "flite", "watson"}

\* the events the scheduler can hold: planned actions
Plans == {Plan1, Plan2}

\* Replies the dialogue service gives in the control-loop specification
RemoteReplies ==
    { [answer |-> "a1"],
      [answer |-> "a1", planned_actions |-> <<Plan1, Plan2>>],
      [answer |-> "a1", language |-> "de"],
      [stop |-> "StopAction"] }

NoCycle == [listen |-> "none", errors |-> <<>>, recognize |-> 0, outcome |-> "none",
            recognized |-> 0, dispatch |-> 0]
NoOut == [call |-> "none"]
\* a thread with no event in hand
Nothing == [nothing |-> TRUE]

SetGpio(g, line, level) == IF GPIO THEN [g EXCEPT ![line] = level] ELSE g

Init ==
    /\ event_queue = <<>>
    /\ scheduler = <<>>
    /\ pc = [t \in Threads |-> IF t = "loop" THEN "top" ELSE "idle"]
    /\ local = [t \in Threads |-> Nothing]
    /\ detector = FALSE
    /\ mic = {}
    /\ gpio = [line \in {22, 27} |-> FALSE]
    /\ GPIO = TRUE
    /\ wake_button \in BOOLEAN
    /\ renderer \in BOOLEAN
    /\ config \in [default_stt : {"google", "pocket_sphinx", "deepspeech-local"},
                   default_tts : {"google", "flite"}]
    /\ language = "en"
    /\ online \in BOOLEAN
    /\ restored = TRUE
    /\ raised = "none"
    /\ cycle = [t \in Threads |-> NoCycle]
    /\ out = NoOut

\* queue_event (line 139-140): Queue.put on the unbounded queue
queue_event(event) == event_queue' = Append(event_queue, event)

\* start(), line 146-147: the queue is empty, so start_detector()
StartDetector ==
    /\ pc["loop"] = "top"
    /\ event_queue = <<>>
    /\ detector' = TRUE
    /\ pc' = [pc EXCEPT !["loop"] = "detect"]
    /\ restored' = FALSE
    /\ UNCHANGED <<event_queue, scheduler, local, mic, gpio, GPIO, wake_button,
                   renderer, config, language, online, raised, cycle, out>>

\* PopEvent taking the newest event instead of the oldest (a LIFO queue)
PopEventNewest ==
    /\ pc["loop"] = "top"
    /\ event_queue # <<>>
    /\ local' = [local EXCEPT !["loop"] = event_queue[Len(event_queue)]]
    /\ event_queue' = SubSeq(event_queue, 1, Len(event_queue) - 1)
    /\ pc' = [pc EXCEPT !["loop"] = "ev_dispatch"]
    /\ restored' = FALSE
    /\ UNCHANGED <<scheduler, detector, mic, gpio, GPIO, wake_button, renderer,
                   config, language, online, raised, cycle, out>>

\* start(), line 148-149: ev = self.event_queue.get()
PopEvent ==
    /\ pc["loop"] = "top"
    /\ event_queue # <<>>
    /\ local' = [local EXCEPT !["loop"] = Head(event_queue)]
    /\ event_queue' = Tail(event_queue)
    /\ pc' = [pc EXCEPT !["loop"] = "ev_dispatch"]
    /\ restored' = FALSE
    /\ UNCHANGED <<scheduler, detector, mic, gpio, GPIO, wake_button, renderer,
                   config, language, online, raised, cycle, out>>

\* hotword_detector.start() returns once the detector has been stopped
DetectorReturns ==
    /\ pc["loop"] = "detect"
    /\ ~detector
    /\ pc' = [pc EXCEPT !["loop"] = "restore"]
    /\ UNCHANGED <<event_queue, scheduler, local, detector, mic, gpio, GPIO,
                   wake_button, renderer, config, language, online, restored,
                   raised, cycle, out>>

\* start(), line 153-159: back from processing
Restore ==
    /\ pc["loop"] = "restore"
    /\ restored' = TRUE
    /\ gpio' = SetGpio(SetGpio(gpio, 27, FALSE), 22, FALSE)
    /\ pc' = [pc EXCEPT !["loop"] = "top"]
    /\ UNCHANGED <<event_queue, scheduler, local, detector, mic, GPIO, wake_button,
                   renderer, config, language, online, raised, cycle, out>>

----------------------------------------------------------------------------
(* hotword_detected_callback, run by thread t *)

\* the source of t signals: the hotword detector only while it is started and
\* the loop waits in it, the wake button and the renderer at any time
Triggered(t) ==
    IF t = "loop" THEN pc[t] = "detect" /\ detector
    ELSE pc[t] = "idle" /\ Present(t)

\* where t is after the callback returned
Returned(t) == IF t = "loop" THEN "detect" ELSE "idle"
\* where t is after an exception left the callback: nothing in start() or
\* start_detector() catches it, so on the loop thread it ends start()
Raised(t) == IF t = "loop" THEN "dead" ELSE "idle"

\* the callback of t is over (returned, or left by the exception exc)
CbEnds(t, c, exc) ==
    /\ out' = [call |-> "hotword_detected_callback", listen |-> c.listen,
               errors |-> c.errors, recognize |-> c.recognize,
               outcome |-> c.outcome, recognized |-> c.recognized,
               dispatch |-> c.dispatch, raises |-> exc, mic |-> t \in mic']
    /\ cycle' = [cycle EXCEPT ![t] = NoCycle]
    /\ pc' = [pc EXCEPT ![t] = IF exc = "none" THEN Returned(t) ELSE Raised(t)]
    /\ raised' = IF t = "loop" THEN exc ELSE raised

\* line 173-186: beep, stop_detector(), GPIO 22 high, notify 'listening',
\* then the microphone is entered and recognizer.listen blocks
CbBegin(t) ==
    /\ Triggered(t)
    /\ detector' = FALSE
    /\ gpio' = SetGpio(gpio, 22, TRUE)
    /\ mic' = mic \cup {t}
    /\ pc' = [pc EXCEPT ![t] = "cb_listen"]
    /\ cycle' = [cycle EXCEPT ![t] = NoCycle]
    /\ UNCHANGED <<event_queue, scheduler, local, GPIO, wake_button, renderer,
                   config, language, online, restored, raised, out>>

\* CbListenTimeout without the `return` of line 193: the callback goes on to
\* recognition after the timeout was handled
CbListenTimeoutNoReturn(t) ==
    /\ pc[t] = "cb_listen"
    /\ mic' = mic \ {t}
    /\ pc' = [pc EXCEPT ![t] = "cb_recognize"]
    /\ cycle' = [cycle EXCEPT ![t].listen = "timeout",
                              ![t].errors = Append(@, "ListenTimeout")]
    /\ UNCHANGED <<event_queue, scheduler, local, detector, gpio, GPIO, wake_button,
                   renderer, config, language, online, restored, raised, out>>

\* line 187-193: recognizer.listen raises WaitTimeoutError; the error handler
\* runs inside the with block, the return leaves it
CbListenTimeout(t) ==
    /\ pc[t] = "cb_listen"
    /\ mic' = mic \ {t}
    /\ LET r == deal_with_error("ListenTimeout")
       IN CbEnds(t, [cycle[t] EXCEPT !.listen = "timeout",
                                     !.errors = Append(@, "ListenTimeout")], r.raises)
    /\ UNCHANGED <<event_queue, scheduler, local, detector, gpio, GPIO, wake_button,
                   renderer, config, language, online, restored>>

\* line 189, 194-198: audio captured; the with block ends, GPIO 22 low
CbListenAudio(t) ==
    /\ pc[t] = "cb_listen"
    /\ mic' = mic \ {t}
    /\ gpio' = SetGpio(gpio, 22, FALSE)
    /\ pc' = [pc EXCEPT ![t] = "cb_recognize"]
    /\ cycle' = [cycle EXCEPT ![t].listen = "audio"]
    /\ UNCHANGED <<event_queue, scheduler, local, detector, GPIO, wake_button,
                   renderer, config, language, online, restored, raised, out>>

\* what one call of deal_with_answer leaves in the shared state
Dispatched(r) ==
    /\ language' = r.lang
    /\ scheduler' = scheduler \o [i \in 1..Len(r.sched) |-> r.sched[i].event]
    /\ gpio' = IF r.gpio27 THEN [gpio EXCEPT ![27] = TRUE] ELSE gpio

\* CbRecognize with the except clause of line 209 gone: UnknownValueError
\* leaves the callback like any other exception of the provider
CbRecognizeNoExcept(t, heard, remote) ==
    /\ pc[t] = "cb_recognize"
    /\ UNCHANGED <<event_queue, local, detector, mic, GPIO, wake_button, renderer,
                   online, restored>>
    /\ \E r \in {recognize_audio(heard)} :
       \E c \in {[cycle[t] EXCEPT !.recognize = @ + 1, !.outcome = r.outcome]} :
       /\ config' = [config EXCEPT !.default_stt = r.default_stt]
       /\ IF r.outcome \in {"UnknownValueError", "RequestError"}
          THEN /\ CbEnds(t, c, r.outcome)
               /\ UNCHANGED <<language, scheduler, gpio>>
          ELSE \E d \in {deal_with_answer(Text(r.outcome), remote)} :
               /\ Len(scheduler) + Len(event_queue) + Len(d.sched) <= MaxPending
               /\ Dispatched(d)
               /\ CbEnds(t, [c EXCEPT !.recognized = @ + Len(notify_renderer(<<"recognized">>)),
                                      !.dispatch = @ + 1], d.raises)

\* line 199-211: recognize_audio on what was heard, then deal_with_answer with
\* the recognized text; UnknownValueError is handled, any other exception of
\* the provider, and any exception of deal_with_answer, leaves the callback
CbRecognize(t, heard, remote) ==
    /\ pc[t] = "cb_recognize"
    /\ UNCHANGED <<event_queue, local, detector, mic, GPIO, wake_button, renderer,
                   online, restored>>
    /\ \E r \in {recognize_audio(heard)} :
       \E c \in {[cycle[t] EXCEPT !.recognize = @ + 1, !.outcome = r.outcome]} :
       /\ config' = [config EXCEPT !.default_stt = r.default_stt]
       /\ IF r.outcome = "UnknownValueError"
          THEN /\ CbEnds(t, [c EXCEPT !.errors = Append(@, "RecognitionError")],
                         deal_with_error("RecognitionError").raises)
               /\ UNCHANGED <<language, scheduler, gpio>>
          ELSE IF r.outcome = "RequestError"
          THEN /\ CbEnds(t, c, "RequestError")
               /\ UNCHANGED <<language, scheduler, gpio>>
          ELSE \E d \in {deal_with_answer(Text(r.outcome), remote)} :
               /\ Len(scheduler) + Len(event_queue) + Len(d.sched) <= MaxPending
               /\ Dispatched(d)
               /\ CbEnds(t, [c EXCEPT !.recognized = @ + Len(notify_renderer(<<"recognized">>)),
                                      !.dispatch = @ + 1], d.raises)

\* start(), line 150: self.deal_with_answer(ev) with the popped event
EvDispatch ==
    /\ pc["loop"] = "ev_dispatch"
    /\ \E r \in {deal_with_answer(Obj(local["loop"]), local["loop"])} :
       /\ Len(scheduler) + Len(event_queue) + Len(r.sched) <= MaxPending
       /\ Dispatched(r)
       /\ pc' = [pc EXCEPT !["loop"] = IF r.raises = "none" THEN "restore"
                                       ELSE "dead"]
       /\ raised' = r.raises
       /\ out' = [call |-> "deal_with_answer", payload |-> local["loop"],
                  ret |-> r.ret, raises |-> r.raises]
    /\ local' = [local EXCEPT !["loop"] = Nothing]
    /\ UNCHANGED <<event_queue, detector, mic, GPIO, wake_button, renderer, config,
                   online, restored, cycle>>

\* the action scheduler fires a plan: its subject calls queue_event (line 135-137)
SchedulerFires(i) ==
    /\ i \in 1..Len(scheduler)
    /\ queue_event(scheduler[i])
    /\ scheduler' = [j \in 1..(Len(scheduler) - 1) |->
                       IF j < i THEN scheduler[j] ELSE scheduler[j + 1]]
    /\ UNCHANGED <<pc, local, detector, mic, gpio, GPIO, wake_button, renderer,
                   config, language, online, restored, raised, cycle, out>>

\* the network comes or goes
NetworkChanges ==
    /\ online' = ~online
    /\ UNCHANGED <<event_queue, scheduler, pc, local, detector, mic, gpio, GPIO,
                   wake_button, renderer, config, language, restored, raised,
                   cycle, out>>

Next ==
    \/ StartDetector
    \/ PopEvent
    \/ DetectorReturns
    \/ Restore
    \/ EvDispatch
    \/ \E t \in Threads : CbBegin(t)
    \/ \E t \in Threads : CbListenTimeout(t)
    \/ \E t \in Threads : CbListenAudio(t)
    \/ \E t \in Threads, heard \in {"text", "unintelligible"}, remote \in RemoteReplies :
          CbRecognize(t, heard, remote)
    \/ \E i \in 1..MaxPending : SchedulerFires(i)
    \/ NetworkChanges

Spec == Init /\ [][Next]_vars

----------------------------------------------------------------------------
(* The handlers one call at a time: deal_with_answer, deal_with_error and   *)
(* recognize_audio applied once to every input of a bounded set.            *)

Cell(i, j) == "r" \o ToString(i) \o "c" \o ToString(j)
Table(rows) == [head |-> <<"A", "B">>,
                data |-> [i \in 1..rows |-> <<Cell(i, 1), Cell(i, 2)>>]]
Rss(count) == [entities |-> <<[title |-> "t1"], [title |-> "t2"]>>, count |-> count]

Fields == {"planned_actions", "volume", "media_action", "stop", "answer",
           "language", "identifier", "table", "rss"}

\* the values a field takes when present
Options(field) ==
    CASE field = "planned_actions" -> << <<Plan1>>, <<Plan1, Plan2>> >>
      [] field = "volume" -> << "10" >>
      [] field = "media_action" -> <<"pause", "resume", "restart", "next",
                                     "previous", "shuffle", "rewind">>
      [] field = "stop" -> << "StopAction" >>
      [] field = "answer" -> << "a1" >>
      [] field = "language" -> << "en", "de" >>
      [] field = "identifier" -> << YtdIdentifier, UrlIdentifier, TagIdentifier >>
      [] field = "table" -> << Table(1), Table(4 + MaxExtraRows) >>
      [] field = "rss" -> << Rss(1) >>

\* a Reply: a mapping with the fields that are chosen present (choice > 0)
ReplyOf(choice) ==
    [field \in {f \in Fields : choice[f] > 0} |-> Options(field)[choice[field]]]

\* per field: 0 for absent, or the index of one of its values
N(field) == 0..Len(Options(field))
Choices == [planned_actions : N("planned_actions"), volume : N("volume"),
            media_action : N("media_action"), stop : N("stop"), answer : N("answer"),
            language : N("language"), identifier : N("identifier"),
            table : N("table"), rss : N("rss")]

ErrorKinds == {"RecognitionError", "ConnectionError", "ListenTimeout", None, "other"}

\* the call the loop thread is about to make
FnInput(call) == [t \in Threads |-> IF t = "loop" THEN call ELSE Nothing]

FnInit ==
    /\ event_queue = <<>>
    /\ scheduler = <<>>
    /\ pc = [t \in Threads |-> IF t = "loop" THEN "fn_call" ELSE "idle"]
    /\ detector = FALSE
    /\ mic = {}
    /\ gpio = [line \in {22, 27} |-> FALSE]
    /\ GPIO = TRUE
    /\ wake_button = FALSE
    /\ renderer \in BOOLEAN
    /\ language = "en"
    /\ online \in BOOLEAN
    /\ restored = TRUE
    /\ raised = "none"
    /\ cycle = [t \in Threads |-> NoCycle]
    /\ out = NoOut
    /\ \/ /\ config \in [default_stt : STTProviders, default_tts : TTSProviders]
          /\ \/ \E kind \in ErrorKinds : local = FnInput([fn |-> "deal_with_error",
                                                            kind |-> kind])
             \/ \E heard \in {"text", "unintelligible"} :
                   local = FnInput([fn |-> "recognize_audio", heard |-> heard])
       \/ /\ config \in [default_stt : {"google"}, default_tts : TTSProviders]
          /\ \/ \E c \in Choices :
                   local = FnInput([fn |-> "deal_with_answer",
                                    payload |-> Obj(ReplyOf(c)), reply |-> ReplyOf(c)])
             \/ \E remote \in RemoteReplies :
                   local = FnInput([fn |-> "deal_with_answer",
                                    payload |-> Text("text"), reply |-> remote])
             \/ local = FnInput([fn |-> "deal_with_answer", payload |-> NonePayload,
                                 reply |-> None])

FnDone(result) ==
    /\ out' = result
    /\ pc' = [pc EXCEPT !["loop"] = "fn_done"]
    /\ UNCHANGED <<event_queue, local, detector, mic, GPIO, wake_button, renderer,
                   online, restored, raised, cycle>>

FnDealWithAnswer ==
    /\ pc["loop"] = "fn_call"
    /\ local["loop"].fn = "deal_with_answer"
    /\ \E r \in {deal_with_answer(local["loop"].payload, local["loop"].reply)} :
          Dispatched(r) /\ FnDone(r)
    /\ UNCHANGED config

\* the same pre-built Reply handed to deal_with_answer a second time
FnDealWithAnswerAgain ==
    /\ pc["loop"] = "fn_done"
    /\ local["loop"].fn = "deal_with_answer"
    /\ local["loop"].payload.isinstance = "dict"
    /\ \E r \in {deal_with_answer(local["loop"].payload, local["loop"].reply)} :
          /\ Dispatched(r)
          /\ out' = [call |-> "deal_with_answer", first |-> out, second |-> r]
    /\ pc' = [pc EXCEPT !["loop"] = "fn_again"]
    /\ UNCHANGED <<event_queue, local, detector, mic, GPIO, wake_button, renderer,
                   online, restored, raised, cycle, config>>

FnDealWithError ==
    /\ pc["loop"] = "fn_call"
    /\ local["loop"].fn = "deal_with_error"
    /\ FnDone(deal_with_error(local["loop"].kind))
    /\ UNCHANGED <<config, language, scheduler, gpio>>

FnRecognizeAudio ==
    /\ pc["loop"] = "fn_call"
    /\ local["loop"].fn = "recognize_audio"
    /\ \E r \in {recognize_audio(local["loop"].heard)} :
          /\ config' = [config EXCEPT !.default_stt = r.default_stt]
          /\ FnDone(r)
    /\ UNCHANGED <<language, scheduler, gpio>>

FnNext ==
    \/ FnDealWithAnswer
    \/ FnDealWithAnswerAgain
    \/ FnDealWithError
    \/ FnRecognizeAudio

SpecFn == FnInit /\ [][FnNext]_vars

----------------------------------------------------------------------------
(* The control loop under the scheduling the program has: the consumer     *)
(* thread keeps running (a callback that has started on it runs on, listen *)
(* being bounded by its timeout) and the scheduler's timer fires.  Nothing *)
(* makes a user say the hotword.                                           *)

\* the steps of the consumer thread: start() and the callback nested in it
ConsumerSteps ==
    \/ StartDetector \/ PopEvent \/ DetectorReturns \/ Restore \/ EvDispatch
    \/ CbListenTimeout("loop")
    \/ CbListenAudio("loop")
    \/ \E heard \in {"text", "unintelligible"}, remote \in RemoteReplies :
          CbRecognize("loop", heard, remote)

\* a device whose only trigger source is the hotword detector
HotwordOnlyInit == Init /\ ~wake_button /\ ~renderer

SpecFair ==
    /\ HotwordOnlyInit
    /\ [][Next]_vars
    /\ WF_vars(ConsumerSteps)
    /\ WF_vars(\E i \in 1..MaxPending : SchedulerFires(i))

----------------------------------------------------------------------------
(* Properties *)

\* the texts spoken by a sequence of effects, in order
IsSpeak(effect) ==
    effect[1] \in {"TTS.speak_google_tts", "TTS.speak_flite_tts", "TTS.speak_watson_tts"}
Spoken(fx) == LET said == SelectSeq(fx, IsSpeak) IN [i \in 1..Len(said) |-> said[i][2]]
\* the calls (without arguments) of a sequence of effects
Calls(fx) == {fx[i][1] : i \in 1..Len(fx)}

\* thread t is between the start and the end of a capture or a dispatch
InProgress(t) == pc[t] \in {"cb_listen", "cb_recognize", "ev_dispatch"}

\* the loop thread has made the call of the one-call specification
FnReturned(fn) == pc["loop"] = "fn_done" /\ local["loop"].fn = fn

\* how often x occurs in seq
Count(seq, x) == Cardinality({i \in 1..Len(seq) : seq[i] = x})

\* deal_with_answer has returned from a call that had a Reply in hand: the
\* payload was a Reply, or a text the dialogue service answered
ReplyInHand ==
    /\ FnReturned("deal_with_answer")
    /\ local["loop"].payload.isinstance # "NoneType"
    /\ local["loop"].payload.isinstance = "str" => online
\* the Reply of that call
TheReply == local["loop"].reply
\* the configured text-to-speech provider can be reached
TTSUp == config.default_tts = "flite" \/ online
\* the calls of the audio player among a sequence of effects
PlayerCalls(fx) ==
    SelectSeq(fx, LAMBDA e : e[1] \in {"player.volume", "player.say", "player.stop",
                                       "player.play", "player.playytb"}
                                 \cup {"player." \o a : a \in MediaActions})

\* C1: every step of the loop thread that ends an iteration of start() -- back
\* at the top of the loop, or out of start() by an exception -- leaves the
\* soft volume restored and the GPIO lines 27 and 22 low.
C1_BaselineRestoredAfterEveryIteration ==
    [][(pc["loop"] \notin {"top", "dead"} /\ pc'["loop"] \in {"top", "dead"})
         => (restored' /\ (GPIO => ~gpio'[27] /\ ~gpio'[22]))]_vars

\* C2: no failure of a cycle ends the control loop: no exception leaves start().
C2_LoopNeverTerminates == raised = "none" /\ pc["loop"] # "dead"

\* C3: wake detection is never active while a microphone capture is open.
C3_DetectionExcludesCapture == ~(detector /\ mic # {})

\* C4: capture, recognition and dispatch run on the consumer thread only,
\* and never two of them at the same time.
C4_OnlyConsumerThreadHandles ==
    /\ \A t \in Threads \ {"loop"} : ~InProgress(t)
    /\ Cardinality({t \in Threads : InProgress(t)}) <= 1

\* C5: an event that waits in the queue while the loop is idle in wake
\* detection makes the loop leave wake detection, whatever the trigger
\* sources do.
C5_SchedulerSignalLeavesIdle ==
    [](((event_queue # <<>>) /\ pc["loop"] = "detect") => <>(pc["loop"] # "detect"))

\* C6: a ConnectionError caught by deal_with_answer is handed to the error
\* handler with kind ConnectionError and no exception leaves deal_with_answer.
C6_ConnectionErrorRoutedToHandler ==
    (FnReturned("deal_with_answer") /\ out.caught = "ConnectionError")
        => (out.raises = "none" /\ out.handler = "ConnectionError")

\* C7: deal_with_error raises for no kind, its last effect is lights.off,
\* and the sound is the one of the kind (none for ListenTimeout).
C7_ErrorHandlerNeverRaises ==
    FnReturned("deal_with_error") =>
        LET kind == local["loop"].kind
            sounds == {out.fx[i] : i \in {j \in 1..Len(out.fx) : out.fx[j][1] = "player.say"}}
        IN /\ out.raises = "none"
           /\ out.fx # <<>> /\ out.fx[Len(out.fx)] = <<"lights.off">>
           /\ kind = "ListenTimeout" => sounds = {}
           /\ kind = "RecognitionError"
                 => sounds = {<<"player.say", "recognition_error_sound">>}
           /\ kind \in {None, "other"} => sounds = {<<"player.say", "problem_sound">>}

\* C8: once a ConnectionError has been handled (caught by deal_with_answer, or
\* given to deal_with_error) the providers are flite and pocket_sphinx.
C8_OfflineProvidersAfterConnectionError ==
    (\/ FnReturned("deal_with_answer") /\ out.caught = "ConnectionError"
     \/ FnReturned("deal_with_error") /\ local["loop"].kind = "ConnectionError")
        => (config.default_tts = "flite" /\ config.default_stt = "pocket_sphinx")

\* C9: a capture cycle whose listen timed out handled ListenTimeout exactly
\* once and nothing else, called neither recognize_audio nor deal_with_answer,
\* returned normally and left the microphone released.
C9_TimeoutCycle ==
    (out.call = "hotword_detected_callback" /\ out.listen = "timeout")
        => /\ out.errors = <<"ListenTimeout">>
           /\ out.recognize = 0
           /\ out.dispatch = 0
           /\ out.raises = "none"
           /\ ~out.mic

\* a capture cycle that timed out has ended
C9_Witness ==
    /\ out.call = "hotword_detected_callback"
    /\ out.listen = "timeout"
    /\ out.errors = <<"ListenTimeout">>

\* C10: dispatching a Reply with the field stop calls player.stop and does
\* not speak the fallback phrase, whatever other fields the Reply has.
C10_StopNeverFallsBack ==
    (/\ FnReturned("deal_with_answer")
     /\ local["loop"].payload.isinstance # "NoneType"
     /\ Has(local["loop"].reply, "stop")
     /\ ~(local["loop"].payload.isinstance = "str" /\ ~online))
        => /\ "player.stop" \in Calls(out.fx)
           /\ \A i \in 1..Len(Spoken(out.fx)) : Spoken(out.fx)[i] # FallbackPhrase

\* a Reply with stop and four other fields, but no answer, has been dispatched
C10_Witness ==
    /\ FnReturned("deal_with_answer")
    /\ local["loop"].payload.isinstance = "dict"
    /\ {"stop", "language", "table", "rss", "planned_actions"}
          \subseteq DOMAIN local["loop"].reply
    /\ ~Has(local["loop"].reply, "answer")
    /\ "player.stop" \in Calls(out.fx)
    /\ out.ret = "True"

\* C11: a Reply without answer and identifier, and without volume, stop and
\* a recognized media_action, gets the fallback phrase spoken exactly once
\* (the text-to-speech provider being reachable); an unrecognized
\* media_action makes no player call.
C11_FallbackSpokenOnce ==
    (/\ ReplyInHand /\ TTSUp
     /\ DOMAIN TheReply \cap {"answer", "identifier", "volume", "stop"} = {}
     /\ Has(TheReply, "media_action") => TheReply["media_action"] \notin MediaActions)
        => /\ Count(Spoken(out.fx), FallbackPhrase) = 1
           /\ PlayerCalls(out.fx) = <<>>

\* a Reply with planned_actions and an unrecognized media_action only has been
\* dispatched and the fallback phrase was spoken
C11_Witness ==
    /\ ReplyInHand /\ TTSUp
    /\ DOMAIN TheReply = {"planned_actions", "media_action"}
    /\ TheReply["media_action"] \notin MediaActions
    /\ Count(Spoken(out.fx), FallbackPhrase) = 1

\* C12: the queue changes only by a push at its tail or by the loop, at the
\* top of an iteration, taking the event at its head; the event taken stays in
\* the loop's hand until the loop dispatches exactly that event, once, in the
\* same iteration.  So events are dispatched in the order they were pushed,
\* none twice and none dropped from the queue.
C12_FifoOnePerIteration ==
    [][/\ event_queue' # event_queue =>
            \/ /\ Len(event_queue') = Len(event_queue) + 1
               /\ SubSeq(event_queue', 1, Len(event_queue)) = event_queue
            \/ /\ event_queue # <<>>
               /\ event_queue' = Tail(event_queue)
               /\ pc["loop"] = "top" /\ pc'["loop"] = "ev_dispatch"
               /\ local'["loop"] = Head(event_queue)
       /\ (pc["loop"] # "ev_dispatch" /\ pc'["loop"] = "ev_dispatch") =>
            (event_queue # <<>> /\ event_queue' = Tail(event_queue))
       /\ pc["loop"] = "ev_dispatch" =>
            \/ /\ pc'["loop"] = "ev_dispatch"
               /\ local'["loop"] = local["loop"]
               /\ Len(event_queue') >= Len(event_queue)
            \/ /\ pc'["loop"] \in {"restore", "dead"}
               /\ out'.call = "deal_with_answer"
               /\ out'.payload = local["loop"]
               /\ local'["loop"] = Nothing
               /\ event_queue' = event_queue]_vars

\* Plan2 was pushed before Plan1: Plan2 has been dispatched and Plan1 still waits
C12_Witness ==
    /\ out.call = "deal_with_answer"
    /\ out.payload = Plan2
    /\ event_queue = <<Plan1>>
    /\ pc["loop"] = "restore"

\* the step of deal_with_answer an effect belongs to, in the order of the
\* claim: 1 speaking notification, 2 planned_actions, 3 volume, 4 media_action,
\* 5 stop, 6 answer or fallback, 7 language, 8 identifier, 9 table, 10 rss
\* (0: the remote call before them, or a light, which several steps set)
Step(effect, reply) ==
    LET call == effect[1] IN
    IF call = "renderer.receive_message" THEN 1
    ELSE IF call = "action_schduler.add_event" THEN 2
    ELSE IF call \in {"player.volume", "player.say"} THEN 3
    ELSE IF call \in {"player." \o a : a \in MediaActions} \cup {"lights.wakeup"} THEN 4
    ELSE IF call = "player.stop" THEN 5
    ELSE IF call = "susi_config.language" THEN 7
    ELSE IF call \in {"player.play", "player.playytb"} THEN 8
    ELSE IF IsSpeak(effect)
    THEN IF effect[2] = FallbackPhrase THEN 6
         ELSE IF Has(reply, "answer") /\ effect[2] = reply["answer"] THEN 6
         ELSE IF Has(reply, "rss")
                 /\ \E i \in 1..Len(reply["rss"].entities) :
                        effect[2] = reply["rss"].entities[i].title THEN 10
         ELSE 9
    ELSE 0

\* the steps of the effects of fx, in order, lights and the remote call left out
Steps(fx, reply) ==
    LET all == [i \in 1..Len(fx) |-> Step(fx[i], reply)]
    IN SelectSeq(all, LAMBDA n : n > 0)

\* the steps a Reply makes deal_with_answer take, by the fields it has
StepsDue(reply) ==
    (IF renderer THEN {1} ELSE {})
    \cup (IF Has(reply, "planned_actions") THEN {2} ELSE {})
    \cup (IF Has(reply, "volume") THEN {3} ELSE {})
    \cup (IF Has(reply, "media_action") /\ reply["media_action"] \in MediaActions
          THEN {4} ELSE {})
    \cup (IF Has(reply, "stop") THEN {5} ELSE {})
    \cup (IF Has(reply, "answer") THEN {6} ELSE {})
    \cup (IF Has(reply, "language") /\ reply["language"] # "en" THEN {7} ELSE {})
    \cup (IF Has(reply, "identifier") THEN {8} ELSE {})
    \cup (IF Has(reply, "table") THEN {9} ELSE {})
    \cup (IF Has(reply, "rss") THEN {10} ELSE {})

\* C13: every recognized field of the Reply that is present has its effect
\* (not only the first), the effects come in the order speaking notification,
\* planned_actions, volume, media_action, stop, answer or fallback, language,
\* identifier, table, rss, and the language is switched after the answer was
\* spoken (the text-to-speech provider being reachable).
C13_AllFieldsInFixedOrder ==
    (ReplyInHand /\ TTSUp) =>
        LET steps == Steps(out.fx, TheReply)
            taken == {steps[i] : i \in 1..Len(steps)}
        IN /\ \A i \in 1..(Len(steps) - 1) : steps[i] <= steps[i + 1]
           /\ StepsDue(TheReply) \subseteq taken
           /\ taken \subseteq StepsDue(TheReply) \cup {6}
           /\ Has(TheReply, "language") => language = TheReply["language"]

\* a Reply with all nine fields has been dispatched: the answer was spoken, then
\* the language switched
C13_Witness ==
    /\ ReplyInHand /\ TTSUp /\ renderer
    /\ DOMAIN TheReply = Fields
    /\ TheReply["language"] = "de"
    /\ language = "de"
    /\ LET steps == Steps(out.fx, TheReply)
       IN {steps[i] : i \in 1..Len(steps)} = 1..10

\* the side effects of a dispatch others can see: every call recorded but the
\* assignment of the active language
Visible(fx) == SelectSeq(fx, LAMBDA e : e[1] # "susi_config.language")

\* C14: a pre-built Reply dispatched twice in a row has the same visible side
\* effects, in the same order, and the same result both times; what the first
\* dispatch leaves behind for the second is the active language only.
C14_SameEffectsTwice ==
    (pc["loop"] = "fn_again") =>
        /\ Visible(out.second.fx) = Visible(out.first.fx)
        /\ out.second.ret = out.first.ret
        /\ out.second.raises = out.first.raises
        /\ out.second.lang = out.first.lang

\* a Reply with planned_actions, an answer and another language was dispatched
\* twice: the first dispatch switched the language, the second found it switched
C14_Witness ==
    /\ pc["loop"] = "fn_again"
    /\ {"planned_actions", "answer", "language", "identifier"} \subseteq DOMAIN TheReply
    /\ out.first.ret = "True"
    /\ Len(out.first.fx) = Len(out.second.fx) + 1
    /\ Len(scheduler) = 2 * Len(TheReply["planned_actions"])

\* the step is one in which the consumer thread dispatches: an event it
\* popped, or the text of a capture cycle run on the consumer thread
ConsumerDispatches ==
    \/ pc["loop"] = "ev_dispatch" /\ pc'["loop"] # "ev_dispatch"
    \/ /\ pc["loop"] = "cb_recognize" /\ pc'["loop"] # "cb_recognize"
       /\ out'.call = "hotword_detected_callback" /\ out'.dispatch = 1

\* C15: default_stt, default_tts and the active language change only in a
\* dispatch step of the consumer thread: not in recognize_audio, and not in a
\* step of the wake button's or the renderer's thread.
C15_ConfigWrittenOnlyByConsumerDispatch ==
    [][(config' # config \/ language' # language) => ConsumerDispatches]_vars

\* the play calls among a sequence of effects
Plays(fx) == SelectSeq(fx, LAMBDA e : e[1] \in {"player.play", "player.playytb"})

\* C16: a Reply with identifier gets exactly one play call: player.playytb
\* with the identifier less its first 4 characters when it begins with ytd
\* (ytd-04 gives 04), player.play with the whole identifier otherwise (the
\* answer, if any, having been spoken).
C16_IdentifierPlayedOnce ==
    (/\ ReplyInHand
     /\ Has(TheReply, "identifier")
     /\ Has(TheReply, "answer") => TTSUp)
        => LET url == TheReply["identifier"]
               tagged == Len(url) >= 3 /\ <<url[1], url[2], url[3]>> = <<"y", "t", "d">>
               key == [i \in 1..(IF Len(url) > 4 THEN Len(url) - 4 ELSE 0) |-> url[i + 4]]
           IN /\ Plays(out.fx) = IF tagged THEN << <<"player.playytb", key>> >>
                                           ELSE << <<"player.play", url>> >>
              /\ url = YtdIdentifier => Plays(out.fx)[1][2] = <<"0", "4">>

\* the identifier ytd-04 of a Reply that also has an answer was played as the
\* streaming key 04
C16_Witness ==
    /\ ReplyInHand
    /\ Has(TheReply, "answer")
    /\ Has(TheReply, "identifier") /\ TheReply["identifier"] = YtdIdentifier
    /\ Plays(out.fx) = << <<"player.playytb", <<"0", "4">> >> >>

\* the cells of a table: its header cells and the cells of all its data rows
CellsOf(table) ==
    {table.head[j] : j \in 1..Len(table.head)}
    \cup UNION {{table.data[i][j] : j \in 1..Len(table.data[i])} :
                   i \in 1..Len(table.data)}

\* C17: of a Reply with table, the header cells are spoken once each, in
\* order, then the cells of the first min(4, rows) data rows, row by row, and
\* no cell of a later row (the text-to-speech provider being reachable).
C17_TableHeaderThenFourRows ==
    (ReplyInHand /\ TTSUp /\ Has(TheReply, "table")) =>
        LET table == TheReply["table"]
            said == SelectSeq(Spoken(out.fx), LAMBDA text : text \in CellsOf(table))
            rows == IF Len(table.data) < 4 THEN Len(table.data) ELSE 4
            width == Len(table.head)
        IN /\ Len(said) = width + rows * width
           /\ \A j \in 1..width : said[j] = table.head[j]
           /\ \A i \in 1..rows : \A j \in 1..width :
                 said[width + (i - 1) * width + j] = table.data[i][j]
           /\ \A i \in 5..Len(table.data) : \A j \in 1..Len(table.data[i]) :
                 Count(Spoken(out.fx), table.data[i][j]) = 0

\* a table of more than four data rows has been spoken up to its fourth row
C17_Witness ==
    /\ ReplyInHand /\ TTSUp /\ Has(TheReply, "table")
    /\ Len(TheReply["table"].data) > 4
    /\ Count(Spoken(out.fx), TheReply["table"].data[4][2]) = 1
    /\ Count(Spoken(out.fx), TheReply["table"].data[5][1]) = 0

\* a Reply without its planned_actions
WithoutPlans(reply) == [f \in DOMAIN reply \ {"planned_actions"} |-> reply[f]]
\* the effects of a dispatch other than registering plans and switching language
Unplanned(fx) ==
    SelectSeq(fx, LAMBDA e : e[1] \notin {"action_schduler.add_event",
                                          "susi_config.language"})

C19_RecognitionErrorCycle ==
    (out.call = "hotword_detected_callback" /\ out.outcome = "UnknownValueError")
        => /\ out.errors = <<"RecognitionError">>
           /\ out.recognized = 0
           /\ out.dispatch = 0

\* a capture cycle with a renderer attached ended on an unrecognizable utterance
C19_Witness ==
    /\ out.call = "hotword_detected_callback"
    /\ out.outcome = "UnknownValueError"
    /\ out.recognize = 1
    /\ out.errors = <<"RecognitionError">>
    /\ renderer

\* a capture cycle has ended in one of the three ways: recognized and
\* dispatched, ListenTimeout, RecognitionError
CycleEnded ==
    /\ out.call = "hotword_detected_callback"
    /\ \/ out.dispatch = 1
       \/ out.listen = "timeout"
       \/ out.errors = <<"RecognitionError">>

\* C20: once a capture cycle has ended, wake detection, which the cycle
\* stopped, is started again.
C20_DetectionRestartsAfterCycle == [](((CycleEnded /\ ~detector)) => <>detector)

====
